---- MODULE Spec2Model ----
(***************************************************************************)
(* Model of the workflow engine: one run of a workflow whose execution     *)
(* order is the chain 1..numSteps, executed by the run's execution task    *)
(* (executeWorkflow / executeStep), racing with callers of Engine.Cancel   *)
(* and with cancellation of the caller's context.  The store is the        *)
(* in-memory store: every operation is atomic and works on copies.         *)
(* SpecFaultyLoad is the run on a store whose LoadStepOutput may fail,     *)
(* SpecConditional the run of steps wrapped with conditions,               *)
(* SpecFaultyStore the run on a store whose calls may fail, SpecLive the   *)
(* run under a fair scheduler.  The library functions have their own       *)
(* specifications: SpecGraph (ExecutionGraph), SpecBackoff                 *)
(* (CalculateBackoff), SpecStore (the two stores) and SpecAccessor (the    *)
(* state accessor).                                                        *)
(***************************************************************************)
EXTENDS Integers, Sequences, FiniteSets, TLC

\* ------------------------------------------------------------- bounds
MaxSteps == 2
MaxRetriesBound == 1
MaxEdges == 4
MaxAttempt == 66

\* ------------------------------------------------------------- values
RunStatusPending == "PENDING"
RunStatusRunning == "RUNNING"
RunStatusCompleted == "COMPLETED"
RunStatusFailed == "FAILED"
RunStatusCancelled == "CANCELLED"

StepStatusPending == "PENDING"
StepStatusRunning == "RUNNING"
StepStatusCompleted == "COMPLETED"
StepStatusFailed == "FAILED"
StepStatusSkipped == "SKIPPED"
StepStatusRetrying == "RETRYING"

ErrCodeTimeout == "TIMEOUT"
ErrCodeExecutionFailed == "EXECUTION_FAILED"
ErrCodePanic == "PANIC"

\* Mutant of RunIsTerminal: FAILED is not treated as a final state.
RunIsTerminalNoFailed(s) ==
    s = RunStatusCompleted \/ s = RunStatusCancelled

RunIsTerminal(s) ==
    s = RunStatusCompleted \/ s = RunStatusFailed \/ s = RunStatusCancelled

StepIsTerminal(s) ==
    s = StepStatusCompleted \/ s = StepStatusFailed \/ s = StepStatusSkipped

\* ------------------------------------------------------------- progress
\* run.Progress is a float64 quotient of two small integers; it is kept as
\* the reduced fraction <<num, den>>, which is equal exactly when the
\* quotients are equal.
RECURSIVE GCD(_, _)
GCD(a, b) == IF b = 0 THEN a ELSE GCD(b, a % b)

Ratio(c, t) == <<c \div GCD(c, t), t \div GCD(c, t)>>

ProgressZero == Ratio(0, 1)
ProgressOne == Ratio(1, 1)

ProgressLeq(p, q) == p[1] * q[2] <= q[1] * p[2]

\* Mutant of StepProgress: the step being finished is counted twice.
StepProgressOffByOne(completedSteps, totalSteps) ==
    Ratio(completedSteps + 1, totalSteps)

\* progress := float64(completedSteps) / float64(totalSteps)
StepProgress(completedSteps, totalSteps) ==
    Ratio(completedSteps, totalSteps)

\* ------------------------------------------------------------- records
NoError == [code |-> "NONE", step |-> 0]

NoRun ==
    [status |-> "NONE", progress |-> ProgressZero, startedAt |-> FALSE,
     completedAt |-> FALSE, error |-> NoError, output |-> "none"]

\* The WorkflowRun built by StartWorkflow.
NewRun ==
    [status |-> RunStatusPending, progress |-> ProgressZero,
     startedAt |-> FALSE, completedAt |-> FALSE, error |-> NoError,
     output |-> "none"]

NoExec ==
    [status |-> "NONE", attempt |-> 0, startedAt |-> -1,
     completedAt |-> FALSE, input |-> "none", output |-> "none",
     errorCode |-> "NONE", errorAttempt |-> 0, executionIndex |-> 0]

\* Mutant of NewStepExec: the record is a second execution of the step.
NewStepExecIndexOne(input) ==
    [NoExec EXCEPT !.status = StepStatusPending, !.input = input,
                   !.executionIndex = 1]

\* The StepExecution built at the start of executeStep.
NewStepExec(input) ==
    [NoExec EXCEPT !.status = StepStatusPending, !.input = input]

\* Serialized payloads: the run input, the outputs a handler may produce,
\* and the JSON null passed after a failed step with ContinueOnError.
RunInput == "in"
NullBytes == "null"
OutputBytes == {"out"}

\* What a conditional wrapper returns for a step it skips: the marshalled
\* default value, or the marshalled zero value of the output type when no
\* default value was given.
DefaultValues == {"nil", "value"}
DefaultBytes == "default"
ZeroBytes == "zero"
SkippedOutputs == {DefaultBytes, ZeroBytes}

\* Outcomes of one call of step.Execute inside the panic boundary.
HandlerOutcomes == {"ok", "handler_err", "marshal_err", "panic", "timeout"}
SerializationErrors == {"unmarshal_err", "marshal_err"}

VARIABLES
    numSteps,       \* len(executionOrder)
    config,         \* GetConfig() of the step last looked up
    sync,           \* StartOptions.Synchronous
    storeRun,       \* MemoryStore.runs[runID]
    storeExecs,     \* MemoryStore.stepExecutions[runID]
    storeOutputs,   \* MemoryStore.stepOutputs[runID]
    pc,             \* position of the execution task
    run,            \* the task's *WorkflowRun
    idx,            \* position of the range loop in executionOrder
    completedSteps, \* executeWorkflow's counter
    stepInput,      \* input bytes of the current step
    inputBad,       \* the current input does not unmarshal into TIn
    stepExec,       \* executeStep's *StepExecution
    attempt,        \* retry loop variable
    attemptsMade,   \* executeStep's attemptsMade
    lastErr,        \* executeStep's lastErr
    outputBytes,    \* executeStep's outputBytes
    stepFailed,     \* executeStep returned an error
    execResult,     \* what executeWorkflow returned
    ctxDone,        \* the context given to executeWorkflow is cancelled
    cancelPc,       \* position of the caller of Cancel
    cancelRun,      \* the run Cancel read from the store
    cancelResult,   \* what the last finished Cancel call returned
    cancelInFlight, \* the step in flight when Cancel last returned nil
    executeCalls,   \* number of step.Execute calls of the current step
    handlerCalls,   \* number of handler invocations of the current step
    shouldRun,      \* what the wrapper's condition last returned
    storeDown,      \* the store's backend fails every call made now
    storeErrors,    \* a store call of the run's execution has failed
    graph,          \* an ExecutionGraph
    validateResult, \* what Validate returned for it
    sortResult,     \* what GetTopologicalOrder returned for it
    backoffArgs,    \* the arguments of a CalculateBackoff call
    backoffResult,  \* the time.Duration it returned
    kvBackend,      \* which WorkflowStore implementation is called
    kvRuns,         \* its run records, by run ID
    kvState,        \* its state values, by run ID and key
    storeOp,        \* the last call made on it and what it returned
    stateHistory,   \* the last SaveState / DeleteState of each key
    accCache,       \* stateAccessor.cache
    accOp,          \* the last accessor call and what it returned
    accHistory      \* the last Set / Delete of each key

engineVars ==
    <<numSteps, config, sync, storeRun, storeExecs, storeOutputs, pc, run, idx,
      completedSteps, stepInput, inputBad, stepExec, attempt, attemptsMade,
      lastErr, outputBytes, stepFailed, execResult, ctxDone, cancelPc,
      cancelRun, cancelResult, cancelInFlight, executeCalls, handlerCalls,
      shouldRun, storeDown, storeErrors>>

graphVars == <<graph, validateResult, sortResult>>
backoffVars == <<backoffArgs, backoffResult>>
kvVars == <<kvBackend, kvRuns, kvState, storeOp, stateHistory>>
accVars == <<accCache, accOp, accHistory>>
libVars == <<graphVars, backoffVars, kvVars, accVars>>

vars == <<engineVars, libVars>>

wfVars == <<numSteps, config, sync>>
storeVars == <<storeRun, storeExecs, storeOutputs>>
stepVars ==
    <<stepInput, inputBad, stepExec, attempt, attemptsMade, lastErr,
      outputBytes, stepFailed>>
cancelVars == <<cancelPc, cancelRun, cancelResult, cancelInFlight>>
countVars == <<executeCalls, handlerCalls, shouldRun>>
faultVars == <<storeDown, storeErrors>>

Steps == 1..numSteps

ExecutionConfigs ==
    [maxRetries : 0..MaxRetriesBound, continueOnError : BOOLEAN]

\* No step looked up yet.
NoConfig == [maxRetries |-> 0, continueOnError |-> FALSE]

\* ------------------------------------------------------------- graphs
\* Step ids; NoEntry is the empty EntryPoint.
NodeIDs == {1, 2, 3, 4}
NoEntry == 0

\* No graph under construction.
NoGraph == [nodes |-> {}, next |-> <<>>, entry |-> NoEntry]
NoSort == [err |-> "none", order |-> <<>>]

\* The variables of the library functions while the engine is looked at.
GraphIdle ==
    /\ graph = NoGraph
    /\ validateResult = "none"
    /\ sortResult = NoSort

\* No CalculateBackoff call looked at.
NoBackoffArgs == [baseDelayMs |-> 0, attempt |-> 0, strategy |-> "NONE"]

BackoffIdle ==
    /\ backoffArgs = NoBackoffArgs
    /\ backoffResult = <<>>

\* No direct call on a store looked at.
StoreIdle ==
    /\ kvBackend = "memory"
    /\ kvRuns = <<>>
    /\ kvState = <<>>
    /\ storeOp = [op |-> "none"]
    /\ stateHistory = <<>>

\* No accessor built.
AccessorIdle ==
    /\ accCache = <<>>
    /\ accOp = [op |-> "none"]
    /\ accHistory = <<>>

LibIdle == GraphIdle /\ BackoffIdle /\ StoreIdle /\ AccessorIdle

EngineInit ==
    /\ numSteps \in 1..MaxSteps
    /\ config = NoConfig
    /\ sync \in BOOLEAN
    /\ storeRun = NoRun
    /\ storeExecs = [s \in 1..numSteps |-> NoExec]
    /\ storeOutputs = [s \in 1..numSteps |-> "none"]
    /\ pc = "start"
    /\ run = NoRun
    /\ idx = 1
    /\ completedSteps = 0
    /\ stepInput = "none"
    /\ inputBad = FALSE
    /\ stepExec = NoExec
    /\ attempt = 0
    /\ attemptsMade = 0
    /\ lastErr = "nil"
    /\ outputBytes = "none"
    /\ stepFailed = FALSE
    /\ execResult = "none"
    /\ ctxDone = FALSE
    /\ cancelPc = "idle"
    /\ cancelRun = NoRun
    /\ cancelResult = "none"
    /\ cancelInFlight = 0
    /\ executeCalls = 0
    /\ handlerCalls = 0
    /\ shouldRun = "none"
    /\ storeDown = FALSE
    /\ storeErrors = FALSE

Init == LibIdle /\ EngineInit

\* The engine with no run started, while a library function is looked at.
EngineIdle == EngineInit /\ numSteps = 1 /\ ~sync


\* ------------------------------------------------- store calls
\* What a write leaves in the store: a call that fails returns an error and
\* changes nothing.
Persist(old, new) == IF storeDown THEN old ELSE new

\* The action makes one store call, which fails when the backend is down.
NoteStoreCall == storeErrors' = (storeErrors \/ storeDown)

\* ------------------------------------------------- run transitions
\* executeWorkflow: run.Status = RunStatusRunning; run.StartedAt = &startTime
RunningRun(r) ==
    [r EXCEPT !.status = RunStatusRunning, !.startedAt = TRUE]

\* Mutant of CompletedRun: the completion time is set, the status is not.
CompletedRunStillRunning(r) == [r EXCEPT !.completedAt = TRUE]

\* Mutant of CompletedRun: the progress is reset instead of set to 1.0.
CompletedRunResetProgress(r) ==
    [r EXCEPT !.status = RunStatusCompleted, !.progress = ProgressZero,
              !.completedAt = TRUE]

CompletedRun(r) ==
    [r EXCEPT !.status = RunStatusCompleted, !.progress = ProgressOne,
              !.completedAt = TRUE]

\* Mutant of FailedRun: the error record names no step.
FailedRunNoStep(r, step) ==
    [r EXCEPT !.status = RunStatusFailed, !.completedAt = TRUE,
              !.error = [code |-> ErrCodeExecutionFailed, step |-> 0]]

\* failWorkflow: the message is err.Error(), which names the step whose
\* failure or missing output stopped the run; the code is always
\* ErrCodeExecutionFailed.
FailedRun(r, step) ==
    [r EXCEPT !.status = RunStatusFailed, !.completedAt = TRUE,
              !.error = [code |-> ErrCodeExecutionFailed, step |-> step]]

\* Mutant of CancelledRun: the run is marked failed instead of cancelled.
CancelledRunAsFailed(r) ==
    [r EXCEPT !.status = RunStatusFailed, !.completedAt = TRUE]

CancelledRun(r) ==
    [r EXCEPT !.status = RunStatusCancelled, !.completedAt = TRUE]

\* Mutant of MoreAttempts: the retry loop stops one attempt early.
MoreAttemptsExclusive(a, maxRetries) == a < maxRetries

\* for attempt := 0; attempt <= config.MaxRetries; attempt++
MoreAttempts(a, maxRetries) == a <= maxRetries

\* Mutant of ContinueOnError: every step failure is skipped past.
ContinueOnErrorAlways(cfg) == TRUE

\* Mutant of ContinueOnError: the flag is ignored.
ContinueOnErrorIgnored(cfg) == FALSE

\* step.GetConfig().ContinueOnError
ContinueOnError(cfg) == cfg.continueOnError

\* ------------------------------------------------- step executions
\* executeStep on a retry: Status RETRYING, Attempt.
RetryingExec(e, a) ==
    [e EXCEPT !.status = StepStatusRetrying, !.attempt = a]

\* Mutant of RunningExec: the execution is put back to PENDING.
RunningExecAsPending(e, a) ==
    [e EXCEPT !.status = StepStatusPending, !.startedAt = a, !.attempt = a]

\* executeStep before each attempt: Status RUNNING, StartedAt = now (the
\* time of this attempt), Attempt.
RunningExec(e, a) ==
    [e EXCEPT !.status = StepStatusRunning, !.startedAt = a, !.attempt = a]

\* Mutant of CompletedExec: the attempt counter is stepped on success.
CompletedExecNextAttempt(e, bytes) ==
    [e EXCEPT !.status = StepStatusCompleted, !.output = bytes,
              !.completedAt = TRUE, !.attempt = e.attempt + 1]

\* Mutant of CompletedExec: the output is recorded, the status is not.
CompletedExecStillRunning(e, bytes) ==
    [e EXCEPT !.output = bytes, !.completedAt = TRUE]

\* executeStep on success: Status COMPLETED, CompletedAt, Output.
CompletedExec(e, bytes) ==
    [e EXCEPT !.status = StepStatusCompleted, !.output = bytes,
              !.completedAt = TRUE]

\* Mutant of FailedExec: the error is recorded, the status is not.
FailedExecLeftRunning(e, maxRetries) ==
    [e EXCEPT !.completedAt = TRUE, !.errorCode = ErrCodeExecutionFailed,
              !.errorAttempt = maxRetries]

\* Mutant of FailedExec: the error record carries no code.
FailedExecNoCode(e, maxRetries) ==
    [e EXCEPT !.status = StepStatusFailed, !.completedAt = TRUE,
              !.errorAttempt = maxRetries]

\* executeStep after the retry loop: Status FAILED, CompletedAt, and the
\* StepError, whose Code is ErrCodeExecutionFailed whatever the last error
\* was and whose Attempt is config.MaxRetries.
FailedExec(e, maxRetries) ==
    [e EXCEPT !.status = StepStatusFailed, !.completedAt = TRUE,
              !.errorCode = ErrCodeExecutionFailed,
              !.errorAttempt = maxRetries]

\* ------------------------------------------------- step outputs
\* Mutant of StoreSaveStepOutput: the bytes are dropped.
StoreSaveStepOutputDropped(outputs, step, bytes) == outputs

\* MemoryStore.SaveStepOutput: a copy of the bytes under (run, step).
StoreSaveStepOutput(outputs, step, bytes) ==
    [outputs EXCEPT ![step] = bytes]

\* MemoryStore.LoadStepOutput: a copy of the stored bytes; "none" stands
\* for the error returned when nothing is stored under (run, step).
StoreLoadStepOutput(outputs, step) == outputs[step]

\* Mutant of NextStepInput: every step is given the run input.
NextStepInputAlwaysRunInput(completed, loaded, prevContinues) == RunInput

\* The input executeWorkflow prepares for the next step: run.Input for the
\* first one, else what LoadStepOutput returned for the step before it,
\* else JSON null when that step has ContinueOnError; "none" stands for
\* the remaining case, in which the run is failed.
NextStepInput(completed, loaded, prevContinues) ==
    IF completed = 0 THEN RunInput
    ELSE IF loaded # "none" THEN loaded
    ELSE IF prevContinues THEN NullBytes
    ELSE "none"

\* The wrapper's result for a skipped step: json.Marshal of the default
\* value when one was given, else of the zero value of the output type.
SkippedOutput(defaultValue) ==
    IF defaultValue # "nil" THEN DefaultBytes ELSE ZeroBytes

\* Mutant of HandlerInvoked: every call of Execute reaches the handler.
HandlerInvokedAlways(o) == TRUE

\* Whether a call of Execute that ended as o invoked the handler: not when
\* the input did not unmarshal, nor when the wrapper's condition returned
\* false or an error.
HandlerInvoked(o) == o \notin {"unmarshal_err", "skipped", "cond_err"}

\* Mutant of ContextAfterAttempt: a timeout cancels the run's context.
ContextAfterAttemptTimeoutCancels(done, o) == done \/ o = "timeout"

\* The run's context after an attempt: the deadline is on execCtx, a child
\* of ctx made for this attempt, and cancel() ends only the child.
ContextAfterAttempt(done, o) == done

\* ------------------------------------------------- StartWorkflow
\* json.Marshal(input), CreateRun; the execution then runs inline
\* (Synchronous) or on a goroutine.  A failed Marshal creates nothing.
StartWorkflow ==
    /\ UNCHANGED libVars
    /\ pc = "start"
    /\ \E marshalOk \in BOOLEAN :
          /\ IF marshalOk /\ ~storeDown
             THEN /\ run' = NewRun
                  /\ storeRun' = NewRun
                  /\ pc' = "created"
                  /\ UNCHANGED execResult
             ELSE /\ pc' = "done"
                  /\ execResult' = "start_error"
                  /\ UNCHANGED <<run, storeRun>>
          /\ storeErrors' = (storeErrors \/ (marshalOk /\ storeDown))
    /\ UNCHANGED <<wfVars, storeExecs, storeOutputs, idx, completedSteps,
                   stepVars, ctxDone, cancelVars, countVars, storeDown>>

\* ------------------------------------------------- executeWorkflow
\* Status to RUNNING, UpdateRun, execution order, counters.
BeginExecution ==
    /\ UNCHANGED libVars
    /\ pc = "created"
    /\ run' = RunningRun(run)
    /\ storeRun' = Persist(storeRun, RunningRun(run))
    /\ NoteStoreCall
    /\ IF storeDown
       THEN /\ pc' = "done"
            /\ execResult' = "error"
            /\ UNCHANGED <<idx, completedSteps>>
       ELSE /\ idx' = 1
            /\ completedSteps' = 0
            /\ pc' = "loop"
            /\ UNCHANGED execResult
    /\ UNCHANGED <<wfVars, storeExecs, storeOutputs, stepVars, ctxDone,
                   cancelVars, countVars, storeDown>>

\* Top of the loop with ctx.Done() closed: cancelWorkflow, return nil.
CancelOnContextDone ==
    /\ UNCHANGED libVars
    /\ pc = "loop"
    /\ idx <= numSteps
    /\ ctxDone
    /\ run' = CancelledRun(run)
    /\ storeRun' = Persist(storeRun, CancelledRun(run))
    /\ NoteStoreCall
    /\ pc' = "done"
    /\ execResult' = IF storeDown THEN "error" ELSE "nil"
    /\ UNCHANGED <<wfVars, storeExecs, storeOutputs, idx, completedSteps,
                   stepVars, ctxDone, cancelVars, countVars, storeDown>>

\* Top of the loop otherwise: GetStep and the step's input.  The workflow is
\* fixed before the run and only read through GetStep; the configuration of
\* a step enters the model when the loop looks the step up; until then config
\* is still the one of the step before it, which the ContinueOnError test
\* reads.  The first step gets run.Input; later steps
\* LoadStepOutput of the previous step, replaced by null when that fails and
\* the previous step has ContinueOnError, else failWorkflow.  Whether the
\* bytes unmarshal into the step's input type is a property of the bytes;
\* null always does.
PrepareInputWith(loadMayFail) ==
    /\ UNCHANGED libVars
    /\ pc = "loop"
    /\ idx <= numSteps
    /\ ~ctxDone
    /\ config' \in ExecutionConfigs
    /\ \E loaded \in
           IF completedSteps = 0 \/ storeDown THEN {"none"}
           ELSE {StoreLoadStepOutput(storeOutputs, completedSteps)}
                   \cup (IF loadMayFail THEN {"none"} ELSE {}) :
          LET input == NextStepInput(completedSteps, loaded,
                                     ContinueOnError(config))
              stored == StoreLoadStepOutput(storeOutputs, completedSteps)
              loadFailed == /\ completedSteps > 0
                            /\ loaded = "none"
                            /\ (storeDown \/ stored # "none") IN
          IF input # "none"
          THEN /\ stepInput' = input
               /\ inputBad' \in (IF input = NullBytes THEN {FALSE}
                                 ELSE BOOLEAN)
               /\ pc' = "createExec"
               /\ storeErrors' = (storeErrors \/ loadFailed)
               /\ UNCHANGED <<run, storeRun, execResult>>
          ELSE /\ run' = FailedRun(run, completedSteps)
               /\ storeRun' = Persist(storeRun,
                                      FailedRun(run, completedSteps))
               /\ pc' = "done"
               /\ execResult' = "error"
               /\ storeErrors' = (storeErrors \/ loadFailed \/ storeDown)
               /\ UNCHANGED <<stepInput, inputBad>>
    /\ UNCHANGED <<numSteps, sync, storeExecs, storeOutputs, idx,
                   completedSteps, stepExec, attempt, attemptsMade, lastErr,
                   outputBytes, stepFailed, ctxDone, cancelVars, countVars,
                   storeDown>>

\* With the in-memory store LoadStepOutput fails only when nothing is
\* stored.
PrepareInput == PrepareInputWith(FALSE)

\* With a store whose read may fail for any reason (WorkflowStore is an
\* interface; the DynamoDB store returns the error of its GetItem call).
PrepareInputFaulty == PrepareInputWith(TRUE)

\* Normal exit from the loop: completeWorkflow.
CompleteWorkflow ==
    /\ UNCHANGED libVars
    /\ pc = "loop"
    /\ idx > numSteps
    /\ run' = CompletedRun(run)
    /\ storeRun' = Persist(storeRun, CompletedRun(run))
    /\ NoteStoreCall
    /\ pc' = "done"
    /\ execResult' = IF storeDown THEN "error" ELSE "nil"
    /\ UNCHANGED <<wfVars, storeExecs, storeOutputs, idx, completedSteps,
                   stepVars, ctxDone, cancelVars, countVars, storeDown>>

\* ------------------------------------------------- executeStep
\* CreateStepExecution with status PENDING; the locals of executeStep.
CreateStepExecution ==
    /\ UNCHANGED libVars
    /\ pc = "createExec"
    /\ stepExec' = NewStepExec(stepInput)
    /\ storeExecs' =
          Persist(storeExecs, [storeExecs EXCEPT ![idx] = NewStepExec(stepInput)])
    /\ NoteStoreCall
    /\ attempt' = 0
    /\ attemptsMade' = 0
    /\ lastErr' = "nil"
    /\ outputBytes' = "none"
    /\ stepFailed' = storeDown
    /\ executeCalls' = 0
    /\ handlerCalls' = 0
    /\ shouldRun' = "none"
    /\ pc' = IF storeDown THEN "afterStep" ELSE "attemptTop"
    /\ UNCHANGED <<wfVars, storeRun, storeOutputs, run, idx, completedSteps,
                   stepInput, inputBad, execResult, ctxDone, cancelVars,
                   storeDown>>

\* Head of the retry loop.  When the loop condition fails the loop is left;
\* on a retry the execution is persisted as RETRYING before the backoff.
AttemptTop ==
    /\ UNCHANGED libVars
    /\ pc = "attemptTop"
    /\ IF ~MoreAttempts(attempt, config.maxRetries)
       THEN /\ pc' = "exhausted"
            /\ UNCHANGED <<attemptsMade, stepExec, storeExecs, storeErrors>>
       ELSE /\ attemptsMade' = attempt + 1
            /\ IF attempt > 0
               THEN LET e == RetryingExec(stepExec, attempt) IN
                    /\ stepExec' = e
                    /\ storeExecs' =
                          Persist(storeExecs, [storeExecs EXCEPT ![idx] = e])
                    /\ NoteStoreCall
                    /\ pc' = "backoff"
               ELSE /\ pc' = "setRunning"
                    /\ UNCHANGED <<stepExec, storeExecs, storeErrors>>
    /\ UNCHANGED <<wfVars, storeRun, storeOutputs, run, idx, completedSteps,
                   stepInput, inputBad, attempt, lastErr, outputBytes,
                   stepFailed, execResult, ctxDone, cancelVars, countVars,
                   storeDown>>

\* time.Sleep(delay): it returns when the delay has passed and looks at no
\* context.
BackoffSleep ==
    /\ UNCHANGED libVars
    /\ pc = "backoff"
    /\ pc' = "setRunning"
    /\ UNCHANGED <<wfVars, storeVars, run, idx, completedSteps, stepVars,
                   execResult, ctxDone, cancelVars, countVars, faultVars>>

\* Status RUNNING, StartedAt = now (the time of this attempt), persisted.
MarkRunning ==
    /\ UNCHANGED libVars
    /\ pc = "setRunning"
    /\ LET e == RunningExec(stepExec, attempt) IN
       /\ stepExec' = e
       /\ storeExecs' = Persist(storeExecs, [storeExecs EXCEPT ![idx] = e])
    /\ NoteStoreCall
    /\ pc' = "execute"
    /\ UNCHANGED <<wfVars, storeRun, storeOutputs, run, idx, completedSteps,
                   stepInput, inputBad, attempt, attemptsMade, lastErr,
                   outputBytes, stepFailed, execResult, ctxDone, cancelVars,
                   countVars, storeDown>>

\* What one call of Step.Execute can end as: input that does not unmarshal
\* fails before the handler; otherwise the handler runs and returns, fails,
\* panics, overruns the attempt's deadline, or gives up on a cancelled
\* context; its output may fail to marshal.
Outcomes ==
    IF inputBad THEN {"unmarshal_err"}
    ELSE HandlerOutcomes \cup (IF ctxDone THEN {"cancelled"} ELSE {})

\* One attempt: step.Execute under the attempt's deadline and the recover
\* boundary, then the success test.  A failure steps the loop variable.
ExecuteAttemptOf(conditional) ==
    /\ UNCHANGED libVars
    /\ pc = "execute"
    /\ executeCalls' = executeCalls + 1
    /\ \E c \in (IF conditional THEN {"true", "false", "error"}
                 ELSE {"none"}) :
          /\ shouldRun' = c
          /\ \E o \in (CASE c = "false" -> {"skipped"}
                         [] c = "error" -> {"cond_err"}
                         [] OTHER -> Outcomes) :
                /\ handlerCalls' =
                      IF HandlerInvoked(o) THEN handlerCalls + 1
                      ELSE handlerCalls
                /\ ctxDone' = ContextAfterAttempt(ctxDone, o)
                /\ IF o \in {"ok", "skipped"}
                   THEN /\ lastErr' = "nil"
                        /\ IF o = "ok"
                           THEN outputBytes' \in OutputBytes
                           ELSE \E d \in DefaultValues :
                                   outputBytes' = SkippedOutput(d)
                        /\ pc' = "persistCompleted"
                        /\ UNCHANGED attempt
                   ELSE /\ lastErr' = o
                        /\ outputBytes' =
                              IF o = "panic" THEN outputBytes ELSE "none"
                        /\ attempt' = attempt + 1
                        /\ pc' = "attemptTop"
    /\ UNCHANGED <<wfVars, storeVars, run, idx, completedSteps, stepInput,
                   inputBad, stepExec, attemptsMade, stepFailed, execResult,
                   cancelVars, faultVars>>

\* The step is a Step: Execute unmarshals, calls the handler, marshals.
ExecuteAttempt == ExecuteAttemptOf(FALSE)

\* The step is wrapped with a condition: Execute evaluates the condition
\* first; an error of the condition fails the attempt, false skips the
\* step with the default output, true executes the wrapped step.
ExecuteAttemptConditional == ExecuteAttemptOf(TRUE)

\* Success: the execution is persisted as COMPLETED with its output.
PersistCompleted ==
    /\ UNCHANGED libVars
    /\ pc = "persistCompleted"
    /\ LET e == CompletedExec(stepExec, outputBytes) IN
       /\ stepExec' = e
       /\ storeExecs' = Persist(storeExecs, [storeExecs EXCEPT ![idx] = e])
    /\ NoteStoreCall
    /\ pc' = "saveOutput"
    /\ UNCHANGED <<wfVars, storeRun, storeOutputs, run, idx, completedSteps,
                   stepInput, inputBad, attempt, attemptsMade, lastErr,
                   outputBytes, stepFailed, execResult, ctxDone, cancelVars,
                   countVars, storeDown>>

\* SaveStepOutput, then executeStep returns without error.
SaveStepOutput ==
    /\ UNCHANGED libVars
    /\ pc = "saveOutput"
    /\ storeOutputs' =
          Persist(storeOutputs,
                  StoreSaveStepOutput(storeOutputs, idx, outputBytes))
    /\ NoteStoreCall
    /\ stepFailed' = FALSE
    /\ pc' = "afterStep"
    /\ UNCHANGED <<wfVars, storeRun, storeExecs, run, idx, completedSteps,
                   stepInput, inputBad, stepExec, attempt, attemptsMade,
                   lastErr, outputBytes, execResult, ctxDone, cancelVars,
                   countVars, storeDown>>

\* All retries exhausted: FAILED with code ErrCodeExecutionFailed and
\* Attempt = MaxRetries, persisted; executeStep returns the error.
PersistFailed ==
    /\ UNCHANGED libVars
    /\ pc = "exhausted"
    /\ LET e == FailedExec(stepExec, config.maxRetries) IN
       /\ stepExec' = e
       /\ storeExecs' = Persist(storeExecs, [storeExecs EXCEPT ![idx] = e])
    /\ NoteStoreCall
    /\ stepFailed' = TRUE
    /\ pc' = "afterStep"
    /\ UNCHANGED <<wfVars, storeRun, storeOutputs, run, idx, completedSteps,
                   stepInput, inputBad, attempt, attemptsMade, lastErr,
                   outputBytes, execResult, ctxDone, cancelVars, countVars,
                   storeDown>>

\* ------------------------------------------------- after executeStep
\* executeStep returned a nil result: it returns (nil, err) only when
\* CreateStepExecution fails, before the retry loop is entered.
ResultIsNil == stepFailed /\ attemptsMade = 0

\* The step failed and has no ContinueOnError: failWorkflow.
FailOnStepError ==
    /\ UNCHANGED libVars
    /\ pc = "afterStep"
    /\ stepFailed
    /\ ~ContinueOnError(config)
    /\ run' = FailedRun(run, idx)
    /\ storeRun' = Persist(storeRun, FailedRun(run, idx))
    /\ NoteStoreCall
    /\ pc' = "done"
    /\ execResult' = "error"
    /\ UNCHANGED <<wfVars, storeExecs, storeOutputs, idx, completedSteps,
                   stepVars, ctxDone, cancelVars, countVars, storeDown>>

\* Otherwise: completedSteps++, the progress, UpdateRun, next iteration.
\* The variables of the iteration and of the executeStep call end with it.
UpdateProgress ==
    /\ UNCHANGED libVars
    /\ pc = "afterStep"
    /\ stepFailed => ContinueOnError(config)
    /\ completedSteps' = completedSteps + 1
    /\ LET r == [run EXCEPT
                   !.progress = StepProgress(completedSteps + 1, numSteps)] IN
       /\ run' = r
       /\ storeRun' = Persist(storeRun, r)
    /\ NoteStoreCall
    /\ IF ResultIsNil
       THEN /\ pc' = "done"
            /\ execResult' = "panic"
            /\ UNCHANGED <<idx, stepVars, countVars>>
       ELSE /\ idx' = idx + 1
            /\ pc' = "loop"
            /\ stepInput' = "none"
            /\ inputBad' = FALSE
            /\ stepExec' = NoExec
            /\ attempt' = 0
            /\ attemptsMade' = 0
            /\ lastErr' = "nil"
            /\ outputBytes' = "none"
            /\ stepFailed' = FALSE
            /\ executeCalls' = 0
            /\ handlerCalls' = 0
            /\ shouldRun' = "none"
            /\ UNCHANGED execResult
    /\ UNCHANGED <<wfVars, storeExecs, storeOutputs, ctxDone, cancelVars,
                   storeDown>>

\* ------------------------------------------------- Cancel
\* The step executeStep is working on, 0 outside executeStep.
StepInFlight ==
    IF pc \in {"attemptTop", "backoff", "setRunning", "execute",
               "persistCompleted", "saveOutput", "exhausted"}
    THEN idx ELSE 0

\* Cancel: GetRun, then the terminal test.  A missing run and a terminal
\* run end the call with an error.
CancelGetRun ==
    /\ UNCHANGED libVars
    /\ cancelPc = "idle"
    /\ IF storeDown \/ storeRun.status = "NONE"
       THEN /\ cancelResult' = "not_found"
            /\ UNCHANGED <<cancelPc, cancelRun>>
       ELSE IF RunIsTerminal(storeRun.status)
       THEN /\ cancelResult' = "illegal_state"
            /\ UNCHANGED <<cancelPc, cancelRun>>
       ELSE /\ cancelRun' = storeRun
            /\ cancelPc' = "loaded"
            /\ UNCHANGED cancelResult
    /\ UNCHANGED <<wfVars, storeVars, pc, run, idx, completedSteps, stepVars,
                   execResult, ctxDone, cancelInFlight, countVars, faultVars>>

\* Cancel: cancelWorkflow on the run it read, UpdateRun, return nil.
CancelPersist ==
    /\ UNCHANGED libVars
    /\ cancelPc = "loaded"
    /\ storeRun' = Persist(storeRun, CancelledRun(cancelRun))
    /\ cancelRun' = NoRun
    /\ cancelResult' = IF storeDown THEN "store_error" ELSE "ok"
    /\ cancelInFlight' = IF storeDown THEN cancelInFlight ELSE StepInFlight
    /\ cancelPc' = "idle"
    /\ UNCHANGED <<wfVars, storeExecs, storeOutputs, pc, run, idx,
                   completedSteps, stepVars, execResult, ctxDone, countVars,
                   faultVars>>

\* The caller of a synchronous StartWorkflow cancels the context it passed.
\* An asynchronous run executes under context.Background(), which nothing
\* cancels.
CancelContext ==
    /\ UNCHANGED libVars
    /\ sync
    /\ ~ctxDone
    /\ pc # "done"
    /\ ctxDone' = TRUE
    /\ UNCHANGED <<wfVars, storeVars, pc, run, idx, completedSteps, stepVars,
                   execResult, cancelVars, countVars, faultVars>>

Next ==
    \/ StartWorkflow
    \/ BeginExecution
    \/ CancelOnContextDone
    \/ PrepareInput
    \/ CompleteWorkflow
    \/ CreateStepExecution
    \/ AttemptTop
    \/ BackoffSleep
    \/ MarkRunning
    \/ ExecuteAttempt
    \/ PersistCompleted
    \/ SaveStepOutput
    \/ PersistFailed
    \/ FailOnStepError
    \/ UpdateProgress
    \/ CancelGetRun
    \/ CancelPersist
    \/ CancelContext

Spec == Init /\ [][Next]_vars

\* The execution task: the caller's goroutine of a synchronous start, else
\* the goroutine StartWorkflow launches.  The Go scheduler runs a runnable
\* goroutine eventually; time.Sleep and a handler that returns both end.
ExecutionTask ==
    \/ StartWorkflow
    \/ BeginExecution
    \/ CancelOnContextDone
    \/ PrepareInput
    \/ CompleteWorkflow
    \/ CreateStepExecution
    \/ AttemptTop
    \/ BackoffSleep
    \/ MarkRunning
    \/ ExecuteAttempt
    \/ PersistCompleted
    \/ SaveStepOutput
    \/ PersistFailed
    \/ FailOnStepError
    \/ UpdateProgress

\* The task and the cancellation of the context a synchronous start was
\* given.
NextLive ==
    \/ ExecutionTask
    \/ CancelContext

SpecLive == Init /\ [][NextLive]_vars /\ WF_vars(ExecutionTask)

\* The same with callers of Cancel interleaved.
SpecLiveCancel == Init /\ [][Next]_vars /\ WF_vars(ExecutionTask)

\* The steps of the execution task that are the same for every store and
\* every kind of step.
EngineSteps ==
    \/ StartWorkflow
    \/ BeginExecution
    \/ CompleteWorkflow
    \/ CreateStepExecution
    \/ AttemptTop
    \/ BackoffSleep
    \/ MarkRunning
    \/ PersistCompleted
    \/ SaveStepOutput
    \/ PersistFailed
    \/ FailOnStepError
    \/ UpdateProgress

\* An asynchronous or uncancelled run, left alone by Cancel, on a store
\* whose LoadStepOutput may fail.
NextFaultyLoad ==
    \/ EngineSteps
    \/ PrepareInputFaulty
    \/ ExecuteAttempt

SpecFaultyLoad == Init /\ [][NextFaultyLoad]_vars

\* An uncancelled run, left alone by Cancel, whose steps are wrapped with
\* conditions.
NextConditional ==
    \/ EngineSteps
    \/ PrepareInput
    \/ ExecuteAttemptConditional

SpecConditional == Init /\ [][NextConditional]_vars

\* The backend of the store starts or stops failing.
StoreFault ==
    /\ UNCHANGED libVars
    /\ pc # "done"
    /\ storeDown' = ~storeDown
    /\ UNCHANGED <<wfVars, storeVars, pc, run, idx, completedSteps, stepVars,
                   execResult, ctxDone, cancelVars, countVars, storeErrors>>

\* An uncancelled run, left alone by Cancel, on a store whose backend may
\* fail any call.
NextFaultyStore ==
    \/ EngineSteps
    \/ PrepareInput
    \/ ExecuteAttempt
    \/ StoreFault

SpecFaultyStore == Init /\ [][NextFaultyStore]_vars

\* ------------------------------------------------- ExecutionGraph
\* The ids of a set in ascending order: the order in which the model walks
\* a node's Next and the Nodes map.
RECURSIVE SortedSeq(_)
SortedSeq(S) ==
    IF S = {} THEN <<>>
    ELSE LET m == CHOOSE x \in S : \A y \in S : x <= y IN
         <<m>> \o SortedSeq(S \ {m})

\* The graphs AddNode, AddEdge and the EntryPoint field can produce: the
\* edges lead from nodes to nodes; the entry point may be unset or name a
\* step that is not a node.
EdgeSets(N) == {E \in SUBSET (N \X N) : Cardinality(E) <= MaxEdges}

MakeGraph(N, E, entry) ==
    [nodes |-> N,
     next |-> [n \in N |-> {m \in N : <<n, m>> \in E}],
     entry |-> entry]

Graphs ==
    {MakeGraph(N, E, entry) :
        N \in {{}, {1}, {2}, {1, 2}, {1, 2, 3}, NodeIDs},
        E \in EdgeSets(NodeIDs),
        entry \in {NoEntry, 1, 2}}

\* hasCycle: DFS with the visited and recStack maps; st carries both maps
\* and the result found so far.
RECURSIVE hasCycle(_, _, _)
RECURSIVE hasCycleNext(_, _, _)
hasCycle(g, nodeID, st) ==
    LET r == hasCycleNext(g, SortedSeq(g.next[nodeID]),
                          [st EXCEPT !.visited = @ \cup {nodeID},
                                     !.recStack = @ \cup {nodeID}]) IN
    IF r.found THEN r ELSE [r EXCEPT !.recStack = @ \ {nodeID}]

hasCycleNext(g, nextIDs, st) ==
    IF nextIDs = <<>> THEN st
    ELSE LET nextID == Head(nextIDs) IN
         IF nextID \notin st.visited
         THEN LET r == hasCycle(g, nextID, st) IN
              IF r.found THEN r ELSE hasCycleNext(g, Tail(nextIDs), r)
         ELSE IF nextID \in st.recStack
         THEN [st EXCEPT !.found = TRUE]
         ELSE hasCycleNext(g, Tail(nextIDs), st)

\* The loop of Validate over the Nodes map.
RECURSIVE cycleFromAny(_, _, _)
cycleFromAny(g, nodeIDs, st) ==
    IF nodeIDs = <<>> THEN FALSE
    ELSE IF Head(nodeIDs) \in st.visited
    THEN cycleFromAny(g, Tail(nodeIDs), st)
    ELSE LET r == hasCycle(g, Head(nodeIDs), st) IN
         r.found \/ cycleFromAny(g, Tail(nodeIDs), r)

\* dfsReachable / getReachableNodes.
RECURSIVE dfsReachable(_, _, _)
RECURSIVE dfsReachableNext(_, _, _)
dfsReachable(g, nodeID, reachable) ==
    dfsReachableNext(g, SortedSeq(g.next[nodeID]), reachable \cup {nodeID})

dfsReachableNext(g, nextIDs, reachable) ==
    IF nextIDs = <<>> THEN reachable
    ELSE IF Head(nextIDs) \in reachable
    THEN dfsReachableNext(g, Tail(nextIDs), reachable)
    ELSE dfsReachableNext(g, Tail(nextIDs),
                          dfsReachable(g, Head(nextIDs), reachable))

getReachableNodes(g, startID) == dfsReachable(g, startID, {})

\* Mutant of Validate: the reachability check is left out.
ValidateNoReachability(g) ==
    IF g.entry = NoEntry THEN "no_entry_point"
    ELSE IF g.entry \notin g.nodes THEN "entry_point_not_found"
    ELSE IF cycleFromAny(g, SortedSeq(g.nodes),
                         [found |-> FALSE, visited |-> {}, recStack |-> {}])
    THEN "cycles"
    ELSE "ok"

\* Validate: "ok" stands for the nil error.
Validate(g) ==
    IF g.entry = NoEntry THEN "no_entry_point"
    ELSE IF g.entry \notin g.nodes THEN "entry_point_not_found"
    ELSE IF cycleFromAny(g, SortedSeq(g.nodes),
                         [found |-> FALSE, visited |-> {}, recStack |-> {}])
    THEN "cycles"
    ELSE IF Cardinality(getReachableNodes(g, g.entry)) # Cardinality(g.nodes)
    THEN "unreachable"
    ELSE "ok"

\* Mutant of visit: the node is put on the stack before its successors.
RECURSIVE visitPreorder(_, _, _)
RECURSIVE visitPreorderNext(_, _, _)
visitPreorder(g, nodeID, st) ==
    IF nodeID \in st.visited THEN st
    ELSE visitPreorderNext(g, SortedSeq(g.next[nodeID]),
                           [visited |-> st.visited \cup {nodeID},
                            stack |-> st.stack \o <<nodeID>>])

visitPreorderNext(g, nextIDs, st) ==
    IF nextIDs = <<>> THEN st
    ELSE visitPreorderNext(g, Tail(nextIDs),
                           visitPreorder(g, Head(nextIDs), st))

\* visit of GetTopologicalOrder: after the successors of the node have been
\* visited the node is put in front of the stack.
RECURSIVE visit(_, _, _)
RECURSIVE visitNext(_, _, _)
visit(g, nodeID, st) ==
    IF nodeID \in st.visited THEN st
    ELSE LET r == visitNext(g, SortedSeq(g.next[nodeID]),
                            [st EXCEPT !.visited = @ \cup {nodeID}]) IN
         [r EXCEPT !.stack = <<nodeID>> \o @]

visitNext(g, nextIDs, st) ==
    IF nextIDs = <<>> THEN st
    ELSE visitNext(g, Tail(nextIDs), visit(g, Head(nextIDs), st))

\* GetTopologicalOrder: Validate, then visit from the entry point.
GetTopologicalOrder(g) ==
    IF Validate(g) # "ok" THEN [err |-> Validate(g), order |-> <<>>]
    ELSE [err |-> "ok",
          order |-> visit(g, g.entry, [visited |-> {}, stack |-> <<>>]).stack]

\* A caller validates the graph it has built.
ValidateGraph ==
    /\ graph # NoGraph
    /\ validateResult = "none"
    /\ validateResult' = Validate(graph)
    /\ UNCHANGED <<engineVars, backoffVars, kvVars, accVars, graph, sortResult>>

\* A caller asks for the topological order (Engine.executeWorkflow does).
SortGraph ==
    /\ graph # NoGraph
    /\ sortResult = NoSort
    /\ sortResult' = GetTopologicalOrder(graph)
    /\ UNCHANGED <<engineVars, backoffVars, kvVars, accVars, graph,
                   validateResult>>

InitGraph ==
    /\ EngineIdle
    /\ AccessorIdle
    /\ BackoffIdle
    /\ StoreIdle
    /\ graph \in Graphs \ {NoGraph}
    /\ validateResult = "none"
    /\ sortResult = NoSort

NextGraph ==
    \/ ValidateGraph
    \/ SortGraph

SpecGraph == InitGraph /\ [][NextGraph]_vars

\* ------------------------------------------------- CalculateBackoff
\* time.Duration and int are 64-bit two's-complement words.  A word is the
\* sequence of its bytes, least significant first.
WordBits == 64
LimbBits == 8
LimbBase == 2 ^ LimbBits
Limbs == WordBits \div LimbBits
\* time.Millisecond in nanoseconds.
Millisecond == 1000000
ZeroWord == [i \in 1..Limbs |-> 0]

\* Bit i (from 0) of a natural number below 2^31.
BitOf(n, i) == IF i > 30 THEN 0 ELSE (n \div (2 ^ i)) % 2

\* Bit i (from 0) of a word.
WordBit(w, i) == (w[(i \div LimbBits) + 1] \div (2 ^ (i % LimbBits))) % 2

\* time.Duration(n) of a non-negative int below 2^31.
ToWord(n) ==
    [i \in 1..Limbs |->
        IF i > 4 THEN 0 ELSE (n \div (LimbBase ^ (i - 1))) % LimbBase]

\* 1 << k on a 64-bit int: the bit shifted past the top is lost, so a count
\* of WordBits or more leaves 0.
ShiftOneLeft(k) ==
    [i \in 1..Limbs |->
        IF k \div LimbBits = i - 1 THEN 2 ^ (k % LimbBits) ELSE 0]

\* Column c of the schoolbook product: the sum of a[i] * b[j], i + j = c + 1.
RECURSIVE ColumnSum(_, _, _, _)
ColumnSum(a, b, c, i) ==
    IF i > c THEN 0 ELSE a[i] * b[c - i + 1] + ColumnSum(a, b, c, i + 1)

\* The columns with their carries passed upwards; the carry out of the top
\* byte is lost.
RECURSIVE Carried(_, _, _, _)
Carried(a, b, c, carry) ==
    IF c > Limbs THEN <<>>
    ELSE LET col == ColumnSum(a, b, c, 1) + carry
         IN  <<col % LimbBase>> \o Carried(a, b, c + 1, col \div LimbBase)

\* a * b on 64-bit words: the low 64 bits of the product.
Mul(a, b) == Carried(a, b, 1, 0)

BackoffStrategies == {"EXPONENTIAL", "LINEAR", "NONE", "FIBONACCI"}
BaseDelaysMs == {0, 1, 10}
BackoffInputs ==
    [baseDelayMs : BaseDelaysMs, attempt : 0..MaxAttempt,
     strategy : BackoffStrategies]

\* helpers.go: the delay before retry number a.
CalculateBackoff(baseDelayMs, a, strategy) ==
    IF a = 0 THEN ZeroWord
    ELSE LET baseDelay == Mul(ToWord(baseDelayMs), ToWord(Millisecond))
         IN  CASE strategy = "EXPONENTIAL" ->
                    LET multiplier == ShiftOneLeft(a - 1)
                    IN  Mul(baseDelay, multiplier)
               [] strategy = "LINEAR" -> Mul(baseDelay, ToWord(a))
               [] strategy = "NONE" -> ZeroWord
               [] OTHER -> Mul(baseDelay, ToWord(a))

\* A caller computes the delay before a retry.
ComputeBackoff ==
    /\ backoffResult = <<>>
    /\ backoffResult' =
           CalculateBackoff(backoffArgs.baseDelayMs, backoffArgs.attempt,
                            backoffArgs.strategy)
    /\ UNCHANGED <<engineVars, graphVars, kvVars, accVars, backoffArgs>>

InitBackoff ==
    /\ EngineIdle
    /\ AccessorIdle
    /\ GraphIdle
    /\ StoreIdle
    /\ backoffArgs \in BackoffInputs
    /\ backoffResult = <<>>

NextBackoff == ComputeBackoff

SpecBackoff == InitBackoff /\ [][NextBackoff]_vars

\* ------------------------------------------------- WorkflowStore
\* The two implementations of the store interface, called directly.
Backends == {"memory", "dynamodb"}
RunIDs == {"run-1", "run-2"}
StateKeys == {"k1", "k2"}
StateBytes == {"a", "b"}
\* The Status of the record handed to CreateRun tells two records apart.
RunRecords == {RunStatusPending, RunStatusRunning}
NoRecord == "absent"
NoValue == "absent"
\* MemoryStore.state has no entry for the run.
NoStateMap == [exists |-> FALSE, vals |-> [k \in StateKeys |-> NoValue]]
EmptyStateMap == [exists |-> TRUE, vals |-> [k \in StateKeys |-> NoValue]]
NoStoreOp ==
    [op |-> "none", runID |-> "", key |-> "", value |-> "", err |-> "nil",
     bytes |-> ""]

StoreCall(op, id, key, value, err, bytes) ==
    [op |-> op, runID |-> id, key |-> key, value |-> value, err |-> err,
     bytes |-> bytes]

\* DeleteState that leaves the key in place.
DeleteKeyKept(m, key) == m

\* delete(runState, key) / DeleteItem.
DeleteKey(m, key) == [m EXCEPT !.vals[key] = NoValue]

\* What the caller has done to a key of a run that exists.
NoteStateOp(id, key, what) ==
    stateHistory' =
        IF kvRuns[id] # NoRecord
        THEN [stateHistory EXCEPT ![id][key] = what]
        ELSE stateHistory

\* MemoryStore.CreateRun refuses a run ID it holds; DynamoDBStore.CreateRun
\* is an unconditional PutItem.
StoreCreateRun ==
    \E id \in RunIDs, rec \in RunRecords :
        /\ IF kvBackend = "memory" /\ kvRuns[id] # NoRecord
           THEN /\ storeOp' = StoreCall("CreateRun", id, "", rec, "already_exists", "")
                /\ UNCHANGED <<kvRuns, kvState>>
           ELSE /\ storeOp' = StoreCall("CreateRun", id, "", rec, "nil", "")
                /\ kvRuns' = [kvRuns EXCEPT ![id] = rec]
                /\ kvState' =
                       IF kvBackend = "memory"
                       THEN [kvState EXCEPT ![id] = EmptyStateMap]
                       ELSE kvState
        /\ UNCHANGED <<engineVars, graphVars, backoffVars, accVars, kvBackend,
                       stateHistory>>

StoreSaveState ==
    \E id \in RunIDs, key \in StateKeys, value \in StateBytes :
        /\ LET m == IF ~kvState[id].exists THEN EmptyStateMap
                    ELSE kvState[id]
           IN  kvState' =
                   [kvState EXCEPT ![id] = [m EXCEPT !.vals[key] = value]]
        /\ storeOp' = StoreCall("SaveState", id, key, value, "nil", "")
        /\ NoteStateOp(id, key, value)
        /\ UNCHANGED <<engineVars, graphVars, backoffVars, accVars, kvBackend,
                       kvRuns>>

StoreLoadState ==
    \E id \in RunIDs, key \in StateKeys :
        /\ storeOp' =
               IF ~kvState[id].exists
               THEN StoreCall("LoadState", id, key, "", "no_state", "")
               ELSE IF kvState[id].vals[key] = NoValue
               THEN StoreCall("LoadState", id, key, "", "not_found", "")
               ELSE StoreCall("LoadState", id, key, "", "nil",
                              kvState[id].vals[key])
        /\ UNCHANGED <<engineVars, graphVars, backoffVars, accVars, kvBackend,
                       kvRuns, kvState, stateHistory>>

StoreDeleteState ==
    \E id \in RunIDs, key \in StateKeys :
        /\ IF ~kvState[id].exists
           THEN /\ storeOp' = StoreCall("DeleteState", id, key, "", "no_state", "")
                /\ UNCHANGED <<kvState, stateHistory>>
           ELSE /\ storeOp' = StoreCall("DeleteState", id, key, "", "nil", "")
                /\ kvState' = [kvState EXCEPT ![id] = DeleteKey(kvState[id], key)]
                /\ NoteStateOp(id, key, "deleted")
        /\ UNCHANGED <<engineVars, graphVars, backoffVars, accVars, kvBackend,
                       kvRuns>>

InitStore ==
    /\ EngineIdle
    /\ AccessorIdle
    /\ GraphIdle
    /\ BackoffIdle
    /\ kvBackend \in Backends
    /\ kvRuns = [id \in RunIDs |-> NoRecord]
    /\ kvState =
           [id \in RunIDs |->
               IF kvBackend = "memory" THEN NoStateMap ELSE EmptyStateMap]
    /\ storeOp = NoStoreOp
    /\ stateHistory = [id \in RunIDs |-> [k \in StateKeys |-> "never"]]

NextStore ==
    \/ StoreCreateRun
    \/ StoreSaveState
    \/ StoreLoadState
    \/ StoreDeleteState

SpecStore == InitStore /\ [][NextStore]_vars

\* ------------------------------------------------- StateAccessor
\* The accessor executeWorkflow builds for its run, over a store whose calls
\* succeed.
AccessorRun == "run-1"
\* Values a handler passes to Set; a channel has no JSON form.
AccessorValues == {"x", "y", "chan"}

\* json.Marshal(value).
Marshal(v) ==
    CASE v = "x" -> [err |-> "nil", data |-> "a"]
      [] v = "y" -> [err |-> "nil", data |-> "b"]
      [] OTHER -> [err |-> "marshal_err", data |-> ""]

\* json.Unmarshal(data, target): what target holds afterwards.
Unmarshal(data) ==
    CASE data = "a" -> "x"
      [] data = "b" -> "y"
      [] OTHER -> ""

NoAccessorOp == [op |-> "none", key |-> "", err |-> "nil", value |-> "", has |-> FALSE]

AccessorCall(op, key, err, value, has) ==
    [op |-> op, key |-> key, err |-> err, value |-> value, has |-> has]

\* store.LoadState(runID, key) as the accessor sees it.
BackendLoad(key) ==
    IF ~kvState[AccessorRun].exists THEN [err |-> "no_state", data |-> ""]
    ELSE IF kvState[AccessorRun].vals[key] = NoValue
    THEN [err |-> "not_found", data |-> ""]
    ELSE [err |-> "nil", data |-> kvState[AccessorRun].vals[key]]

\* Set that leaves an entry already cached as it was.
CacheAfterSetStale(c, key, data) ==
    IF c[key] = NoValue THEN [c EXCEPT ![key] = data] ELSE c

\* a.cache[key] = data
CacheAfterSet(c, key, data) == [c EXCEPT ![key] = data]

AccessorSet ==
    \E key \in StateKeys, value \in AccessorValues :
        LET m == Marshal(value)
        IN  /\ IF m.err # "nil"
               THEN /\ accOp' = AccessorCall("Set", key, m.err, value, FALSE)
                    /\ UNCHANGED <<accCache, kvState, accHistory>>
               ELSE /\ accCache' = CacheAfterSet(accCache, key, m.data)
                    /\ kvState' =
                           [kvState EXCEPT ![AccessorRun].vals[key] = m.data]
                    /\ accHistory' = [accHistory EXCEPT ![key] = m.data]
                    /\ accOp' = AccessorCall("Set", key, "nil", value, FALSE)
            /\ UNCHANGED <<engineVars, graphVars, backoffVars, kvBackend,
                           kvRuns, storeOp, stateHistory>>

AccessorGet ==
    \E key \in StateKeys :
        /\ IF accCache[key] # NoValue
           THEN /\ accOp' = AccessorCall("Get", key, "nil",
                                         Unmarshal(accCache[key]), FALSE)
                /\ UNCHANGED accCache
           ELSE LET l == BackendLoad(key)
                IN  IF l.err # "nil"
                    THEN /\ accOp' = AccessorCall("Get", key, l.err, "", FALSE)
                         /\ UNCHANGED accCache
                    ELSE /\ accCache' = [accCache EXCEPT ![key] = l.data]
                         /\ accOp' = AccessorCall("Get", key, "nil",
                                                  Unmarshal(l.data), FALSE)
        /\ UNCHANGED <<engineVars, graphVars, backoffVars, kvVars, accHistory>>

AccessorDelete ==
    \E key \in StateKeys :
        /\ accCache' = [accCache EXCEPT ![key] = NoValue]
        /\ kvState' =
               [kvState EXCEPT
                   ![AccessorRun] = DeleteKey(kvState[AccessorRun], key)]
        /\ accHistory' = [accHistory EXCEPT ![key] = "deleted"]
        /\ accOp' = AccessorCall("Delete", key, "nil", "", FALSE)
        /\ UNCHANGED <<engineVars, graphVars, backoffVars, kvBackend, kvRuns,
                       storeOp, stateHistory>>

AccessorHas ==
    \E key \in StateKeys :
        /\ accOp' =
               AccessorCall("Has", key, "nil", "",
                            accCache[key] # NoValue
                                \/ BackendLoad(key).err = "nil")
        /\ UNCHANGED <<engineVars, graphVars, backoffVars, kvVars, accCache,
                       accHistory>>

\* The run exists; its state may have been written before the accessor was
\* built.
InitAccessor ==
    /\ EngineIdle
    /\ GraphIdle
    /\ BackoffIdle
    /\ kvBackend \in Backends
    /\ kvRuns = [id \in RunIDs |->
                    IF id = AccessorRun THEN RunStatusRunning ELSE NoRecord]
    /\ \E vals \in [StateKeys -> StateBytes \cup {NoValue}] :
           kvState = [id \in RunIDs |->
                         IF id = AccessorRun
                         THEN [exists |-> TRUE, vals |-> vals]
                         ELSE IF kvBackend = "memory" THEN NoStateMap
                         ELSE EmptyStateMap]
    /\ storeOp = NoStoreOp
    /\ stateHistory = [id \in RunIDs |-> [k \in StateKeys |-> "never"]]
    /\ accCache = [k \in StateKeys |-> NoValue]
    /\ accOp = NoAccessorOp
    /\ accHistory = [k \in StateKeys |-> "never"]

NextAccessor ==
    \/ AccessorSet
    \/ AccessorGet
    \/ AccessorDelete
    \/ AccessorHas

SpecAccessor == InitAccessor /\ [][NextAccessor]_vars

\* ------------------------------------------------- properties
PersistedStatus == storeRun.status

RunStatusRank(s) ==
    CASE s = "NONE" -> 0
      [] s = RunStatusPending -> 1
      [] s = RunStatusRunning -> 2
      [] OTHER -> 3

CompletedExecs == {s \in Steps : storeExecs[s].status = StepStatusCompleted}
TerminalExecs == {s \in Steps : StepIsTerminal(storeExecs[s].status)}

\* C1: the persisted run status only moves forward along
\* pending -> running -> {completed | failed | cancelled}, and a persisted
\* terminal status is never replaced by a different status.
C1_StatusNeverMovesBack ==
    [][/\ RunStatusRank(PersistedStatus) <= RunStatusRank(PersistedStatus')
       /\ PersistedStatus \in
              {RunStatusCompleted, RunStatusFailed, RunStatusCancelled}
          => PersistedStatus' = PersistedStatus]_vars

\* C2: once Cancel has returned nil for an asynchronously started run with a
\* step in flight, no StepExecution record is created for a later step of
\* the execution order.
C2_NoStepStartedAfterCancel ==
    [][(~sync /\ cancelInFlight > 0)
       => \A s \in Steps :
             (s > cancelInFlight /\ storeExecs[s].status = "NONE")
             => storeExecs'[s].status = "NONE"]_vars

\* C3: a Cancel call that finds the run PENDING or RUNNING is not rejected;
\* it persists status CANCELLED and returns nil, so the run is observed as
\* CANCELLED when the call returns.
C3_CancelPersistsCancelled ==
    [][/\ (/\ cancelPc = "idle"
           /\ PersistedStatus \in {RunStatusPending, RunStatusRunning}
           /\ cancelVars' # cancelVars)
          => (cancelPc' = "loaded" /\ cancelRun' = storeRun)
       /\ (cancelPc = "loaded" /\ cancelPc' = "idle")
          => (/\ PersistedStatus' = RunStatusCancelled
              /\ cancelResult' = "ok")]_vars

\* C3 witness: the scenario of the cancel test; the run was started
\* asynchronously, its step is executing, Cancel has returned nil and the
\* run reads CANCELLED.
C3_Witness ==
    /\ ~sync
    /\ pc = "execute"
    /\ cancelResult = "ok"
    /\ cancelInFlight = idx
    /\ PersistedStatus = RunStatusCancelled

\* C4: a Cancel call that finds the persisted status COMPLETED, FAILED or
\* CANCELLED returns the illegal-state error and leaves the store as it is;
\* only a call that read PENDING or RUNNING goes on to write.
C4_CancelOnTerminalRejected ==
    [][/\ (/\ cancelPc = "idle"
           /\ PersistedStatus \in
                 {RunStatusCompleted, RunStatusFailed, RunStatusCancelled}
           /\ cancelVars' # cancelVars)
          => (/\ cancelResult' = "illegal_state"
              /\ cancelPc' = "idle"
              /\ storeVars' = storeVars)
       /\ (cancelPc = "loaded" /\ cancelPc' = "idle")
          => cancelRun.status \in {RunStatusPending, RunStatusRunning}]_vars

\* C4 witness: Cancel was rejected on a run that ended FAILED.
C4_Witness ==
    /\ cancelResult = "illegal_state"
    /\ cancelPc = "idle"
    /\ pc = "done"
    /\ PersistedStatus = RunStatusFailed

C6_ProgressNeverDecreases ==
    [][ProgressLeq(storeRun.progress, storeRun'.progress)]_vars

\* C7: whenever the persisted status is COMPLETED the persisted progress is
\* exactly 1.0.
C7_CompletedHasFullProgress ==
    PersistedStatus = RunStatusCompleted => storeRun.progress = ProgressOne

\* C7 witness: a run of several steps has been persisted as COMPLETED.
C7_Witness ==
    /\ PersistedStatus = RunStatusCompleted
    /\ numSteps > 1
    /\ pc = "done"

C9_NoRetryAfterSerializationError ==
    ~(pc = "execute" /\ lastErr \in SerializationErrors)

\* C10: when the parent context is cancelled while a step is in its retry
\* loop, no further attempt of the step is started.
C10_NoRetryAfterCancellation ==
    [][(ctxDone /\ attempt > 0 /\ pc = "setRunning") => pc' # "execute"]_vars

\* C11: when the context of the run is cancelled while a step is executing
\* and the step's last attempt ends with the cancellation error, the run
\* ends CANCELLED, not FAILED.
C11_CancelledWhileExecutingEndsCancelled ==
    (pc = "done" /\ lastErr = "cancelled")
    => PersistedStatus = RunStatusCancelled

\* C12: a step execution that is FAILED after its last attempt overran the
\* deadline carries the error code TIMEOUT.
C12_TimedOutStepHasTimeoutCode ==
    (/\ idx <= numSteps
     /\ storeExecs[idx].status = StepStatusFailed
     /\ lastErr = "timeout")
    => storeExecs[idx].errorCode = ErrCodeTimeout

\* C13: a panic of the handler is captured and counts as a failed attempt,
\* and a step execution that is FAILED after its last attempt panicked
\* carries the error code PANIC.
C13_PanickedStepHasPanicCode ==
    (/\ idx <= numSteps
     /\ storeExecs[idx].status = StepStatusFailed
     /\ lastErr = "panic")
    => (/\ executeCalls = config.maxRetries + 1
        /\ storeExecs[idx].errorCode = ErrCodePanic)

\* C14: when executeStep has failed all attempts of a step without
\* ContinueOnError, the step execution is persisted as FAILED with error
\* code EXECUTION_FAILED, and the execution task's next step persists the
\* run as FAILED and returns the error.
C14_StepFailureFailsRun ==
    [][(/\ pc = "afterStep"
        /\ stepFailed
        /\ ~config.continueOnError
        /\ pc' # pc)
       => (/\ storeExecs[idx].status = StepStatusFailed
           /\ storeExecs[idx].errorCode = ErrCodeExecutionFailed
           /\ executeCalls = config.maxRetries + 1
           /\ pc' = "done"
           /\ execResult' = "error"
           /\ PersistedStatus' = RunStatusFailed)]_vars

\* C14 witness: a step with retries and without ContinueOnError has failed
\* and the run has ended FAILED.
C14_Witness ==
    /\ pc = "done"
    /\ execResult = "error"
    /\ PersistedStatus = RunStatusFailed
    /\ config.maxRetries > 0
    /\ ~config.continueOnError
    /\ storeExecs[idx].status = StepStatusFailed
    /\ storeExecs[idx].errorCode = ErrCodeExecutionFailed

C16_ContinueOnErrorProceeds ==
    [][/\ (/\ pc = "afterStep"
           /\ stepFailed
           /\ config.continueOnError
           /\ pc' # pc)
          => (/\ storeExecs[idx].status = StepStatusFailed
              /\ pc' = "loop"
              /\ idx' = idx + 1
              /\ run'.status = RunStatusRunning
              /\ execResult' = execResult)
       /\ (pc = "loop" /\ idx <= numSteps /\ ~ctxDone /\ pc' # pc)
          => pc' = "createExec"
       /\ (pc = "loop" /\ idx > numSteps /\ pc' # pc)
          => (/\ pc' = "done"
              /\ execResult' = "nil"
              /\ PersistedStatus' = RunStatusCompleted)]_vars

\* C16 witness: the first step failed, the second step succeeded, and the
\* run ended COMPLETED.
C16_Witness ==
    /\ numSteps = 2
    /\ pc = "done"
    /\ execResult = "nil"
    /\ PersistedStatus = RunStatusCompleted
    /\ storeExecs[1].status = StepStatusFailed
    /\ storeExecs[2].status = StepStatusCompleted

\* The steps whose executeStep call has returned.
ReturnedSteps ==
    {s \in Steps : s < idx \/ (s = idx /\ pc \in {"afterStep", "done"})}

\* C17: for every step whose executeStep call has returned with the
\* execution COMPLETED, LoadStepOutput succeeds and returns exactly the
\* bytes Step.Execute produced, which are the bytes of the execution
\* record's Output.
C17_CompletedOutputLoadable ==
    /\ \A s \in ReturnedSteps :
          storeExecs[s].status = StepStatusCompleted
          => /\ StoreLoadStepOutput(storeOutputs, s) # "none"
             /\ StoreLoadStepOutput(storeOutputs, s) = storeExecs[s].output
    /\ (pc = "afterStep" /\ ~stepFailed)
       => StoreLoadStepOutput(storeOutputs, idx) = outputBytes

\* C17 witness: both steps of a run completed and their outputs are stored.
C17_Witness ==
    /\ numSteps = 2
    /\ pc = "afterStep"
    /\ idx = 2
    /\ ~stepFailed
    /\ storeExecs[1].status = StepStatusCompleted
    /\ storeExecs[2].status = StepStatusCompleted
    /\ storeOutputs[2] = outputBytes

\* C18: when the execution task reads the input of step N+1, the execution
\* of step N is persisted in a terminal status, and it is COMPLETED exactly
\* when the output of step N is stored, the stored bytes being those of the
\* record.
C18_OutputPersistedBeforeNextRead ==
    [][(pc = "loop" /\ completedSteps > 0 /\ pc' = "createExec")
       => LET prev == storeExecs[completedSteps] IN
          \/ /\ prev.status = StepStatusCompleted
             /\ storeOutputs[completedSteps] # "none"
             /\ storeOutputs[completedSteps] = prev.output
          \/ /\ prev.status = StepStatusFailed
             /\ storeOutputs[completedSteps] = "none"]_vars

\* C18 witness: the second step is being set up with the output the
\* completed first step stored.
C18_Witness ==
    /\ pc = "createExec"
    /\ idx = 2
    /\ storeExecs[1].status = StepStatusCompleted
    /\ stepInput = storeOutputs[1]
    /\ stepInput \in OutputBytes

\* C19: the first step is given the run input; a later step is given the
\* stored output of the step before it, or JSON null when that step has
\* ContinueOnError, or the run is persisted as FAILED and no execution is
\* created for the step; the bytes handed to Execute are those prepared.
C19_StepInputSource ==
    [][/\ (pc = "loop" /\ idx <= numSteps /\ pc' # pc)
          => IF completedSteps = 0
             THEN pc' = "createExec" /\ stepInput' = RunInput
             ELSE \/ /\ pc' = "createExec"
                     /\ storeOutputs[completedSteps] # "none"
                     /\ stepInput' = storeOutputs[completedSteps]
                  \/ /\ pc' = "createExec"
                     /\ config.continueOnError
                     /\ stepInput' = NullBytes
                  \/ /\ pc' = "done"
                     /\ ~config.continueOnError
                     /\ PersistedStatus' = RunStatusFailed
                     /\ storeExecs' = storeExecs
                     /\ storeExecs[idx].status = "NONE"
       /\ (pc = "loop" /\ pc' = "createExec"
           /\ completedSteps > 0
           /\ storeExecs[completedSteps].status = StepStatusFailed)
          => stepInput' = NullBytes
       /\ pc = "execute" => storeExecs[idx].input = stepInput]_vars

\* C19 witness: the output of the first step could not be loaded, the step
\* has no ContinueOnError, and the run is FAILED with no execution of the
\* second step.
C19_Witness ==
    /\ pc = "done"
    /\ completedSteps = 1
    /\ PersistedStatus = RunStatusFailed
    /\ execResult = "error"
    /\ ~config.continueOnError
    /\ storeExecs[1].status = StepStatusCompleted
    /\ storeOutputs[1] \in OutputBytes
    /\ storeExecs[2].status = "NONE"

C21_StoreFailureFailsRun ==
    (pc = "done" /\ storeErrors /\ execResult # "start_error")
    => (execResult = "error" /\ PersistedStatus = RunStatusFailed)

\* C22: whenever a synchronous StartWorkflow has returned for a run it
\* created, the persisted status of the run is COMPLETED, FAILED or
\* CANCELLED.
C22_SyncStartReturnsTerminal ==
    (sync /\ pc = "done" /\ execResult \in {"nil", "error"})
    => RunIsTerminal(PersistedStatus)

\* C23: the output of a run persisted as COMPLETED is the output of the
\* last step of the execution order.
C23_CompletedRunHasFinalOutput ==
    (/\ PersistedStatus = RunStatusCompleted
     /\ storeExecs[numSteps].status = StepStatusCompleted)
    => storeRun.output = storeExecs[numSteps].output

\* C24: a run persisted as FAILED has an error record, and a run persisted
\* as CANCELLED has none.
C24_ErrorIffFailed ==
    /\ PersistedStatus = RunStatusFailed => storeRun.error # NoError
    /\ PersistedStatus = RunStatusCancelled => storeRun.error = NoError

\* C24 witness: the execution task failed the run, with an error record,
\* and a Cancel call that had read the run before then persisted it as
\* CANCELLED.
C24_Witness ==
    /\ PersistedStatus = RunStatusCancelled
    /\ run.status = RunStatusFailed
    /\ run.error # NoError
    /\ cancelResult = "ok"

\* The transitions of a step execution's status.
StepTransitions ==
    {<<"NONE", StepStatusPending>>,
     <<StepStatusPending, StepStatusRunning>>,
     <<StepStatusRunning, StepStatusRetrying>>,
     <<StepStatusRetrying, StepStatusRunning>>,
     <<StepStatusRunning, StepStatusCompleted>>,
     <<StepStatusRunning, StepStatusFailed>>,
     <<StepStatusRunning, StepStatusSkipped>>}

\* C25: the persisted status of every step execution changes only along
\* pending -> running -> (retrying -> running)* -> {completed | failed |
\* skipped}; in particular a terminal status is never left.
C25_StepStatusTransitions ==
    [][\A s \in Steps :
          storeExecs'[s].status # storeExecs[s].status
          => <<storeExecs[s].status, storeExecs'[s].status>>
                \in StepTransitions]_vars

\* C25 witness: a step execution was retried and then completed.
C25_Witness ==
    /\ idx <= numSteps
    /\ storeExecs[idx].status = StepStatusCompleted
    /\ attempt > 0
    /\ executeCalls = attempt + 1

\* The nodes that can be reached from a node of S along edges, S included.
RECURSIVE Closure(_, _)
Closure(g, S) ==
    LET T == S \cup UNION {g.next[n] : n \in S} IN
    IF T = S THEN S ELSE Closure(g, T)

\* Some node lies on a directed cycle.
HasDirectedCycle(g) == \E n \in g.nodes : n \in Closure(g, g.next[n])

\* The position of a node in a sequence without repetition.
IndexOf(seq, n) == CHOOSE i \in 1..Len(seq) : seq[i] = n

\* C26: Validate succeeds if and only if the entry point is set and is a
\* node, no node lies on a directed cycle, and every node can be reached
\* from the entry point.
C26_ValidateIffWellFormed ==
    validateResult # "none"
    => (validateResult = "ok"
        <=> (/\ graph.entry # NoEntry
             /\ graph.entry \in graph.nodes
             /\ ~HasDirectedCycle(graph)
             /\ Closure(graph, {graph.entry}) = graph.nodes))

\* C26 witness: a graph of four nodes, one of them with two successors and
\* one with two predecessors, has been validated successfully.
C26_Witness ==
    /\ validateResult = "ok"
    /\ graph.nodes = NodeIDs
    /\ \E n \in graph.nodes : Cardinality(graph.next[n]) = 2
    /\ \E m \in graph.nodes :
          Cardinality({n \in graph.nodes : m \in graph.next[n]}) = 2

\* C27: when GetTopologicalOrder succeeds, the order holds every node of the
\* graph exactly once, and every node stands before each of its successors.
C27_TopologicalOrder ==
    sortResult.err = "ok"
    => LET order == sortResult.order IN
       /\ Len(order) = Cardinality(graph.nodes)
       /\ {order[i] : i \in 1..Len(order)} = graph.nodes
       /\ \A n \in graph.nodes : \A m \in graph.next[n] :
             IndexOf(order, n) < IndexOf(order, m)

\* C27 witness: the order of a graph in which the entry point leads to node
\* 2 directly and through node 3.
C27_Witness ==
    /\ sortResult.err = "ok"
    /\ graph.entry = 1
    /\ graph.nodes = {1, 2, 3}
    /\ graph.next[1] = {2, 3}
    /\ graph.next[3] = {2}
    /\ sortResult.order = <<1, 3, 2>>


\* ------------------------------------------------- C28
\* The 64-bit word w is the non-negative duration of m * 2^k nanoseconds.
Denotes(w, m, k) ==
    /\ WordBit(w, WordBits - 1) = 0
    /\ \A i \in 0..(WordBits - 2) :
           WordBit(w, i) = (IF i >= k THEN BitOf(m, i - k) ELSE 0)
    /\ \A j \in 0..30 : BitOf(m, j) = 1 => j + k < WordBits - 1

\* C28: for every non-negative attempt and base delay the delay returned is
\* 0 for attempt 0 and for strategy NONE, baseMs * 2^(attempt - 1)
\* milliseconds for EXPONENTIAL, and baseMs * attempt milliseconds for LINEAR
\* and for any unknown strategy.
C28_BackoffFormula ==
    backoffResult # <<>> =>
        LET baseNs == backoffArgs.baseDelayMs * Millisecond
            a == backoffArgs.attempt
        IN  CASE a = 0 \/ backoffArgs.strategy = "NONE" ->
                    backoffResult = ZeroWord
              [] a # 0 /\ backoffArgs.strategy = "EXPONENTIAL" ->
                    Denotes(backoffResult, baseNs, a - 1)
              [] OTHER -> Denotes(backoffResult, baseNs * a, 0)


\* ------------------------------------------------- C29
\* C29: CreateRun fails when a run with the same run ID already exists, and
\* the previously stored run record is left unchanged.
C29_DuplicateCreateRunRejected ==
    [][(storeOp'.op = "CreateRun" /\ storeOp' # storeOp
           /\ kvRuns[storeOp'.runID] # NoRecord)
          => (storeOp'.err # "nil" /\ kvRuns' = kvRuns)]_vars

\* ------------------------------------------------- C30
\* C30: on a run that exists, LoadState returns the bytes of the most recent
\* SaveState of the key, and after DeleteState of the key it fails with
\* not_found until the key is saved again.
C30_LoadStateFollowsLastWrite ==
    (storeOp.op = "LoadState" /\ kvRuns[storeOp.runID] # NoRecord) =>
        LET last == stateHistory[storeOp.runID][storeOp.key]
        IN  /\ last \in StateBytes =>
                   (storeOp.err = "nil" /\ storeOp.bytes = last)
            /\ last = "deleted" => storeOp.err = "not_found"

\* A key saved, deleted and then looked up on an existing run; and a key
\* saved twice whose second value is returned.
C30_Witness ==
    /\ storeOp.op = "LoadState"
    /\ kvRuns[storeOp.runID] # NoRecord
    /\ stateHistory[storeOp.runID][storeOp.key] = "deleted"
    /\ storeOp.err = "not_found"
    /\ \E k \in StateKeys :
           /\ stateHistory[storeOp.runID][k] = "b"
           /\ kvState[storeOp.runID].vals[k] = "b"


NonTerminalExecs ==
    {s \in Steps : storeExecs[s].status # "NONE"
                      /\ ~StepIsTerminal(storeExecs[s].status)}

\* C32: steps run one at a time in execution order: at most one step
\* execution of the run is non-terminal, and a step has an execution record
\* only when every earlier step has a terminal one.
C32_OneStepAtATime ==
    /\ Cardinality(NonTerminalExecs) <= 1
    /\ \A s, t \in Steps :
           (t < s /\ storeExecs[s].status # "NONE")
               => StepIsTerminal(storeExecs[t].status)

\* The second step is running after the first one completed.
C32_Witness ==
    /\ numSteps >= 2
    /\ storeExecs[1].status = StepStatusCompleted
    /\ storeExecs[2].status = StepStatusRunning

\* ------------------------------------------------- C33
\* executeStep returned the error of a step that has no ContinueOnError.
AbortPoint ==
    /\ pc = "afterStep"
    /\ storeExecs[idx].status = StepStatusFailed
    /\ ~config.continueOnError

\* C33: after a step without ContinueOnError exhausted its retries the run
\* is aborted: the task's next move ends the execution with an error, no
\* later step has or gets an execution record, and nothing is executed once
\* the execution has ended.
C33_FailureAbortsRun ==
    [][/\ AbortPoint =>
            /\ \A t \in Steps : t > idx => storeExecs[t].status = "NONE"
            /\ pc' # pc =>
                   (pc' = "done" /\ execResult' = "error"
                       /\ storeExecs' = storeExecs)
       /\ pc = "done" =>
            (pc' = "done" /\ storeExecs' = storeExecs
                /\ executeCalls' = executeCalls
                /\ handlerCalls' = handlerCalls)]_vars

\* A two-step run ended by the failure of its first step.
C33_Witness ==
    /\ numSteps = 2
    /\ pc = "done"
    /\ idx = 1
    /\ storeExecs[1].status = StepStatusFailed
    /\ ~config.continueOnError
    /\ storeExecs[2].status = "NONE"
    /\ execResult = "error"


\* ------------------------------------------------- C34
\* C34: a timeout of an attempt ends only that attempt: it leaves the run's
\* context as it was, and with retries remaining the step is attempted
\* again whatever the state of that context.
C34_TimeoutEndsOnlyAttempt ==
    [][/\ (pc = "execute" /\ pc' = "attemptTop" /\ lastErr' = "timeout")
            => ctxDone' = ctxDone
       /\ (pc = "attemptTop" /\ lastErr = "timeout"
              /\ attempt <= config.maxRetries /\ pc' # pc)
            => (pc' = "backoff" /\ attemptsMade' = attempt + 1)
       /\ (pc = "backoff" /\ lastErr = "timeout" /\ pc' # pc)
            => pc' = "setRunning"
       /\ (pc = "setRunning" /\ lastErr = "timeout" /\ pc' # pc)
            => (pc' = "execute"
                  /\ storeExecs'[idx].status = StepStatusRunning)]_vars

\* The second attempt of a step whose first attempt timed out is about to
\* be executed, the run's context not cancelled.
C34_Witness ==
    /\ pc = "execute"
    /\ lastErr = "timeout"
    /\ attempt = 1
    /\ executeCalls = 1
    /\ ~ctxDone
    /\ storeExecs[idx].status = StepStatusRunning

\* ------------------------------------------------- C35
\* C35: started_at of a step execution is set on its first transition to
\* running and not changed by later attempts.
C35_StartedAtSetOnce ==
    [][\A s \in Steps :
          (storeExecs[s].status # "NONE" /\ storeExecs[s].startedAt # -1)
              => storeExecs'[s].startedAt = storeExecs[s].startedAt]_vars

C37_RunEventuallyTerminal ==
    (PersistedStatus \in {RunStatusPending, RunStatusRunning})
        ~> RunIsTerminal(PersistedStatus)

\* A two-step run whose execution got to its second step and ended, the run
\* terminal.
C37_Witness ==
    /\ pc = "done"
    /\ RunIsTerminal(PersistedStatus)
    /\ numSteps = 2
    /\ storeExecs[2].status # "NONE"


\* ------------------------------------------------- C38
\* C38: when the persisted run status is COMPLETED every step of the
\* execution order has a persisted execution in a terminal status, and every
\* step without ContinueOnError is COMPLETED: the loop goes past a step that
\* is not COMPLETED only if the step has ContinueOnError.
C38_CompletedRunHasTerminalSteps ==
    [][/\ PersistedStatus' = RunStatusCompleted =>
            \A s \in Steps : StepIsTerminal(storeExecs'[s].status)
       /\ (pc = "afterStep" /\ idx' = idx + 1
              /\ storeExecs[idx].status # StepStatusCompleted)
            => config.continueOnError
       /\ (PersistedStatus' = RunStatusCompleted
              /\ PersistedStatus # RunStatusCompleted)
            => idx > numSteps]_vars

\* A completed two-step run whose first step failed and was skipped past.
C38_Witness ==
    /\ PersistedStatus = RunStatusCompleted
    /\ numSteps = 2
    /\ storeExecs[1].status = StepStatusFailed
    /\ storeExecs[2].status = StepStatusCompleted

C40_OneExecutionPerStep ==
    [][/\ (pc = "createExec" /\ pc' # pc) =>
            (storeExecs[idx].status = "NONE"
                /\ storeExecs'[idx].status = StepStatusPending
                /\ \A s \in Steps \ {idx} : storeExecs'[s] = storeExecs[s])
       /\ \A s \in Steps :
            (storeExecs[s].status # "NONE" /\ storeExecs'[s].status = StepStatusPending)
                => storeExecs'[s] = storeExecs[s]
       /\ \A s \in Steps : storeExecs'[s].executionIndex = 0]_vars

\* Both steps of a run have their record.
C40_Witness ==
    /\ numSteps = 2
    /\ storeExecs[1].status = StepStatusCompleted
    /\ storeExecs[2].status = StepStatusPending
    /\ storeExecs[2].executionIndex = 0

====
